---- MODULE Spec2Model ----
(***************************************************************************)
(* Quadtree image approximation (comprs): the 2D prefix-sum table           *)
(* (psa.rs), the region statistics (image.rs) and the priority-driven       *)
(* quadtree refinement (tree.rs).                                           *)
(*                                                                          *)
(* A Rust Vec is a sequence; Vec index k is sequence index k + 1 (At, At2). *)
(* A u64/usize value is an integer.  The u64 subtraction a - b is kept as   *)
(* the mathematical difference: it is the u64 result exactly when it is     *)
(* >= 0, and a negative value marks the place where the build would wrap    *)
(* (release) or panic (debug).                                              *)
(***************************************************************************)
EXTENDS Integers, Sequences, FiniteSets, Bags, TLC

VARIABLES
    arr,         \* the decoded grid handed to ImageData::new (Vec<Vec<RGB<u64>>>)
    image_data,  \* Tree.image_data : ImageData {height, width, sums, square_sums}
    nodes,       \* Tree.nodes : Vec<Node>
    pq,          \* Tree.pq : BinaryHeap<OrdNode>, a bag of entries
    dimensions,  \* Tree.dimensions
    result,      \* what the last Tree::refine call returned: "none", "ok", "err"
    calls,       \* number of Tree::refine calls made so far
    n_ok,        \* number of those calls that returned Ok
    last_top,    \* node_index of the entry split by the last Ok call
    query,       \* the last ImageData / PrefixSum2D query and its result
    probe,       \* a Node handed to Node::split and what split returned
    frame        \* the raster Tree::render_rgb returned for the tree as it is now

vars == <<arr, image_data, nodes, pq, dimensions, result, calls, n_ok, last_top, query, probe,
          frame>>

(***************************************************************************)
(* Bounds                                                                  *)
(***************************************************************************)
MaxH == 3          \* grids of the statistics specification: at most MaxH rows
MaxW == 2          \* ... and at most MaxW columns
TreeMaxH == 6      \* textured grids of the tree specification: at most TreeMaxH rows
TreeMaxW == 6      \* ... and at most TreeMaxW columns
FlatMaxSpan == 10  \* cut grids of the tree specification: rows + columns <= FlatMaxSpan
MaxCalls == 7      \* Tree::refine is called at most MaxCalls times
MaxCoord == 8      \* Node::split is probed on rectangles inside 0..MaxCoord

(***************************************************************************)
(* Vec indexing                                                            *)
(***************************************************************************)
At(v, k) == v[k + 1]
At2(v, i, j) == v[i + 1][j + 1]

(***************************************************************************)
(* image.rs : RGB<T>                                                       *)
(***************************************************************************)
RGB(r, g, b) == [r |-> r, g |-> g, b |-> b]

comp_prod(x, y) == RGB(x.r * y.r, x.g * y.g, x.b * y.b)

rgb_add(x, y) == RGB(x.r + y.r, x.g + y.g, x.b + y.b)

rgb_sub(x, y) == RGB(x.r - y.r, x.g - y.g, x.b - y.b)

rgb_div(x, s) == RGB(x.r \div s, x.g \div s, x.b \div s)

zero == RGB(0, 0, 0)

(***************************************************************************)
(* psa.rs : PrefixSum2D                                                    *)
(***************************************************************************)
\* the loop nest of PrefixSum2D::new, cell k = i * width + j in row-major order
new_cell(a, data, i, j) ==
    rgb_sub(rgb_add(rgb_add(At2(a, i, j), At2(data, i, j + 1)), At2(data, i + 1, j)),
            At2(data, i, j))

RECURSIVE new_fill(_, _, _, _, _)
new_fill(a, data, height, width, k) ==
    IF k >= height * width THEN data
    ELSE LET i == k \div width
             j == k % width
         IN  new_fill(a, [data EXCEPT ![i + 2][j + 2] = new_cell(a, data, i, j)],
                      height, width, k + 1)

PrefixSum2D_new(a) ==
    LET height == Len(a)
    IN  IF height = 0 THEN [ok |-> FALSE, err |-> "array has height 0"]
        ELSE LET width == Len(a[1])
             IN  IF width = 0 THEN [ok |-> FALSE, err |-> "array has width 0"]
                 ELSE [ok |-> TRUE,
                       height |-> height,
                       width |-> width,
                       data |-> new_fill(a,
                                         [i \in 1..(height + 1) |-> [j \in 1..(width + 1) |-> zero]],
                                         height, width, 0)]

\* query_sum with corner c read one row too high
query_sum_offrow(ps, top_left, bottom_right) ==
    LET a == At2(ps.data, bottom_right[1] + 1, bottom_right[2] + 1)
        b == At2(ps.data, top_left[1], top_left[2])
        c == At2(ps.data, bottom_right[1], top_left[2])
        d == At2(ps.data, top_left[1], bottom_right[2] + 1)
    IN  rgb_sub(rgb_sub(rgb_add(a, b), c), d)

\* `a + b - c` of query_sum: the value before d is subtracted
query_sum_partial(ps, top_left, bottom_right) ==
    LET a == At2(ps.data, bottom_right[1] + 1, bottom_right[2] + 1)
        b == At2(ps.data, top_left[1], top_left[2])
        c == At2(ps.data, bottom_right[1] + 1, top_left[2])
    IN  rgb_sub(rgb_add(a, b), c)

query_sum(ps, top_left, bottom_right) ==
    LET d == At2(ps.data, top_left[1], bottom_right[2] + 1)
    IN  rgb_sub(query_sum_partial(ps, top_left, bottom_right), d)

(***************************************************************************)
(* image.rs : ImageData                                                    *)
(***************************************************************************)
ImageData_new(data) ==
    LET sums == PrefixSum2D_new(data)
    IN  IF ~sums.ok THEN sums
        ELSE LET squares == [i \in DOMAIN data |->
                                [j \in DOMAIN data[i] |-> comp_prod(data[i][j], data[i][j])]]
                 square_sums == PrefixSum2D_new(squares)
             IN  IF ~square_sums.ok THEN square_sums
                 ELSE [ok |-> TRUE,
                       height |-> sums.height,
                       width |-> sums.width,
                       sums |-> sums,
                       square_sums |-> square_sums]

sum(img, top_left, bottom_right) == query_sum(img.sums, top_left, bottom_right)

average(img, top_left, bottom_right) ==
    LET height == bottom_right[1] - top_left[1] + 1
        width == bottom_right[2] - top_left[2] + 1
    IN  rgb_div(sum(img, top_left, bottom_right), height * width)

\* the mean of ImageData::metric, rounded to nearest instead of truncated
metric_mean_rounded(img, top_left, bottom_right) ==
    LET height == bottom_right[1] - top_left[1] + 1
        width == bottom_right[2] - top_left[2] + 1
        s == sum(img, top_left, bottom_right)
        n == height * width
    IN  rgb_div(RGB(s.r + n \div 2, s.g + n \div 2, s.b + n \div 2), n)

\* `let mean = self.sum(top_left, bottom_right) / (height * width);`
metric_mean(img, top_left, bottom_right) ==
    LET height == bottom_right[1] - top_left[1] + 1
        width == bottom_right[2] - top_left[2] + 1
    IN  rgb_div(sum(img, top_left, bottom_right), height * width)

\* `let variance = square_sum / (height * width) - mean.comp_prod(mean);`
metric_variance(img, top_left, bottom_right) ==
    LET height == bottom_right[1] - top_left[1] + 1
        width == bottom_right[2] - top_left[2] + 1
        mean == metric_mean(img, top_left, bottom_right)
        square_sum == query_sum(img.square_sums, top_left, bottom_right)
    IN  rgb_sub(rgb_div(square_sum, height * width), comp_prod(mean, mean))

metric(img, top_left, bottom_right) ==
    LET height == bottom_right[1] - top_left[1] + 1
        width == bottom_right[2] - top_left[2] + 1
        variance == metric_variance(img, top_left, bottom_right)
    IN  (variance.r + variance.g + variance.b) * (height * width)

(***************************************************************************)
(* tree.rs : Node                                                          *)
(***************************************************************************)
\* Option<NodeChildren> is a sequence: <<>> for None, <<nw, ne, sw, se>> for Some
Node_leaf(top_left, bottom_right) ==
    [top_left |-> top_left, bottom_right |-> bottom_right, children |-> <<>>]

Node_height(node) == node.bottom_right[1] - node.top_left[1]

Node_width(node) == node.bottom_right[2] - node.top_left[2]

can_split(node) == Node_width(node) > 1 /\ Node_height(node) > 1

\* Option<(Node, Node, Node, Node)>: <<>> for None
\* split with the NE quadrant starting on the split column
split_overlap(node) ==
    IF ~can_split(node) THEN <<>>
    ELSE LET split_h == (node.top_left[1] + node.bottom_right[1]) \div 2
             split_w == (node.top_left[2] + node.bottom_right[2]) \div 2
         IN  << Node_leaf(node.top_left, <<split_h, split_w>>),
                Node_leaf(<<node.top_left[1], split_w>>, <<split_h, node.bottom_right[2]>>),
                Node_leaf(<<split_h + 1, node.top_left[2]>>, <<node.bottom_right[1], split_w>>),
                Node_leaf(<<split_h + 1, split_w + 1>>, node.bottom_right) >>

\* split with the midpoints biased one step towards the top-left corner
split_low(node) ==
    IF ~can_split(node) THEN <<>>
    ELSE LET split_h == (node.top_left[1] + node.bottom_right[1] - 1) \div 2
             split_w == (node.top_left[2] + node.bottom_right[2] - 1) \div 2
         IN  << Node_leaf(node.top_left, <<split_h, split_w>>),
                Node_leaf(<<node.top_left[1], split_w + 1>>, <<split_h, node.bottom_right[2]>>),
                Node_leaf(<<split_h + 1, node.top_left[2]>>, <<node.bottom_right[1], split_w>>),
                Node_leaf(<<split_h + 1, split_w + 1>>, node.bottom_right) >>

split(node) ==
    IF ~can_split(node) THEN <<>>
    ELSE LET split_h == (node.top_left[1] + node.bottom_right[1]) \div 2
             split_w == (node.top_left[2] + node.bottom_right[2]) \div 2
         IN  << Node_leaf(node.top_left, <<split_h, split_w>>),
                Node_leaf(<<node.top_left[1], split_w + 1>>, <<split_h, node.bottom_right[2]>>),
                Node_leaf(<<split_h + 1, node.top_left[2]>>, <<node.bottom_right[1], split_w>>),
                Node_leaf(<<split_h + 1, split_w + 1>>, node.bottom_right) >>

(***************************************************************************)
(* tree.rs : OrdNode and the BinaryHeap                                    *)
(***************************************************************************)
OrdNode_new(ns, index, img) ==
    [node_index |-> index,
     metric |-> metric(img, At(ns, index).top_left, At(ns, index).bottom_right)]

\* Ord for OrdNode compares the metrics alone
OrdNode_le(x, y) == x.metric <= y.metric

\* a heap that hands out a least entry
BinaryHeap_pop_min(q) ==
    {top \in BagToSet(q) : \A e \in BagToSet(q) : OrdNode_le(top, e)}

\* BinaryHeap::pop: the entries pop may return, any greatest one (ties are
\* settled by the heap's layout); the empty set when the heap is empty (None)
BinaryHeap_pop(q) ==
    {top \in BagToSet(q) : \A e \in BagToSet(q) : OrdNode_le(e, top)}

BinaryHeap_push(q, e) == q (+) SetToBag({e})

BinaryHeap_remove(q, e) == q (-) SetToBag({e})

(***************************************************************************)
(* tree.rs : Tree                                                          *)
(***************************************************************************)
Tree_new(img) ==
    LET dims == <<img.height, img.width>>
        root == Node_leaf(<<0, 0>>, <<dims[1] - 1, dims[2] - 1>>)
        ns == <<root>>
    IN  [image_data |-> img,
         nodes |-> ns,
         pq |-> BinaryHeap_push(EmptyBag, OrdNode_new(ns, 0, img)),
         dimensions |-> dims]

\* push_node: the index returned is the length before the push
push_node(ns, node) == [nodes |-> Append(ns, node), ret |-> Len(ns)]

\* the `if let Some(..)` body of Tree::refine with the parent queued again
refine_split_requeue(ns, q, img, top, kids) ==
    LET p1 == push_node(ns, kids[1])
        p2 == push_node(p1.nodes, kids[2])
        p3 == push_node(p2.nodes, kids[3])
        p4 == push_node(p3.nodes, kids[4])
        ns2 == [p4.nodes EXCEPT ![top.node_index + 1].children =
                    <<p1.ret, p2.ret, p3.ret, p4.ret>>]
        q1 == BinaryHeap_push(q, OrdNode_new(ns2, p1.ret, img))
        q2 == BinaryHeap_push(q1, OrdNode_new(ns2, p2.ret, img))
        q3 == BinaryHeap_push(q2, OrdNode_new(ns2, p3.ret, img))
        q4 == BinaryHeap_push(q3, OrdNode_new(ns2, p4.ret, img))
    IN  [nodes |-> ns2, pq |-> BinaryHeap_push(q4, top)]

\* ... and with the parent's children field left unset
refine_split_nolink(ns, q, img, top, kids) ==
    LET p1 == push_node(ns, kids[1])
        p2 == push_node(p1.nodes, kids[2])
        p3 == push_node(p2.nodes, kids[3])
        p4 == push_node(p3.nodes, kids[4])
        ns2 == p4.nodes
        q1 == BinaryHeap_push(q, OrdNode_new(ns2, p1.ret, img))
        q2 == BinaryHeap_push(q1, OrdNode_new(ns2, p2.ret, img))
        q3 == BinaryHeap_push(q2, OrdNode_new(ns2, p3.ret, img))
        q4 == BinaryHeap_push(q3, OrdNode_new(ns2, p4.ret, img))
    IN  [nodes |-> ns2, pq |-> q4]

\* the `if let Some((nw, ne, sw, se))` body of Tree::refine
refine_split(ns, q, img, top, kids) ==
    LET p1 == push_node(ns, kids[1])
        p2 == push_node(p1.nodes, kids[2])
        p3 == push_node(p2.nodes, kids[3])
        p4 == push_node(p3.nodes, kids[4])
        ns2 == [p4.nodes EXCEPT ![top.node_index + 1].children =
                    <<p1.ret, p2.ret, p3.ret, p4.ret>>]
        q1 == BinaryHeap_push(q, OrdNode_new(ns2, p1.ret, img))
        q2 == BinaryHeap_push(q1, OrdNode_new(ns2, p2.ret, img))
        q3 == BinaryHeap_push(q2, OrdNode_new(ns2, p3.ret, img))
        q4 == BinaryHeap_push(q3, OrdNode_new(ns2, p4.ret, img))
    IN  [nodes |-> ns2, pq |-> q4]

\* the outcome of refine on an empty heap
\* ... with the exhausted heap reported as success
refine_exhausted_silent(ns, q, top) ==
    [ok |-> TRUE, nodes |-> ns, pq |-> q, top |-> top]

\* `let Some(top) = self.pq.pop() else { return Err(..) }`
refine_exhausted(ns, q, top) ==
    [ok |-> FALSE, nodes |-> ns, pq |-> q, top |-> top]

\* Tree::refine: the set of outcomes [ok, nodes, pq, top] of one call, one per
\* way the heap may settle ties.  ok is TRUE for Ok(()), FALSE for Err.
\* One round of the recursion is the run of `loop` iterations that pop entries
\* of the greatest metric left in the heap: if none of them can be split they
\* are all popped and dropped and the loop goes on with the rest; otherwise the
\* loop ends at one of those that can be split, having dropped before it any
\* number of the tied entries that cannot.
RECURSIVE refine(_, _, _, _)
refine(ns, q, img, prev_top) ==
    LET tops == BinaryHeap_pop(q)
        splittable == {top \in tops : split(At(ns, top.node_index)) # <<>>}
        dropped == tops \ splittable
    IN  IF tops = {} THEN {refine_exhausted(ns, q, prev_top)}
        ELSE IF splittable = {} THEN refine(ns, q (-) SetToBag(dropped), img, prev_top)
        ELSE { LET rest == BinaryHeap_remove(q (-) SetToBag(o[2]), o[1])
                   t == refine_split(ns, rest, img, o[1], split(At(ns, o[1].node_index)))
               IN  [ok |-> TRUE, nodes |-> t.nodes, pq |-> t.pq, top |-> o[1].node_index]
               : o \in splittable \X SUBSET dropped }

(***************************************************************************)
(* tree.rs : Tree::render_rgb                                              *)
(***************************************************************************)
\* `x as u8`
as_u8(x) == x % 256

\* RgbImage::new(w, h): every pixel (x, y) black; puts counts the put_pixel
\* calls made on each pixel
RgbImage_new(w, h) ==
    [pixels |-> [p \in (0..(w - 1)) \X (0..(h - 1)) |-> RGB(0, 0, 0)],
     puts |-> [p \in (0..(w - 1)) \X (0..(h - 1)) |-> 0]]

\* the leaf branch with the ranges start..end instead of start..=end
render_leaf_exclusive(ret, node, img) ==
    LET start_y == node.top_left[1]
        start_x == node.top_left[2]
        end_y == node.bottom_right[1]
        end_x == node.bottom_right[2]
        color == average(img, node.top_left, node.bottom_right)
        painted == (start_x..(end_x - 1)) \X (start_y..(end_y - 1))
    IN  [pixels |-> [p \in DOMAIN ret.pixels |->
                        IF p \in painted
                        THEN RGB(as_u8(color.r), as_u8(color.g), as_u8(color.b))
                        ELSE ret.pixels[p]],
         puts |-> [p \in DOMAIN ret.puts |->
                        IF p \in painted THEN ret.puts[p] + 1 ELSE ret.puts[p]]]

\* the leaf branch of the walk: put_pixel(x, y, color) for x in start_x..=end_x
\* and y in start_y..=end_y, each pixel of the rectangle once
render_leaf(ret, node, img) ==
    LET start_y == node.top_left[1]
        start_x == node.top_left[2]
        end_y == node.bottom_right[1]
        end_x == node.bottom_right[2]
        color == average(img, node.top_left, node.bottom_right)
        painted == (start_x..end_x) \X (start_y..end_y)
    IN  [pixels |-> [p \in DOMAIN ret.pixels |->
                        IF p \in painted
                        THEN RGB(as_u8(color.r), as_u8(color.g), as_u8(color.b))
                        ELSE ret.pixels[p]],
         puts |-> [p \in DOMAIN ret.puts |->
                        IF p \in painted THEN ret.puts[p] + 1 ELSE ret.puts[p]]]

\* `while let Some(cur) = q.pop_front()`: q is the VecDeque of node indices
RECURSIVE render_walk(_, _, _, _)
render_walk(ns, img, q, ret) ==
    IF q = <<>> THEN ret
    ELSE LET cur == Head(q)
             node == At(ns, cur)
         IN  IF node.children # <<>>
             THEN render_walk(ns, img, Tail(q) \o node.children, ret)
             ELSE render_walk(ns, img, Tail(q), render_leaf(ret, node, img))

render_rgb(ns, img, dims) ==
    LET h == dims[1]
        w == dims[2]
    IN  render_walk(ns, img, <<0>>, RgbImage_new(w, h))

(***************************************************************************)
(* Inputs                                                                  *)
(***************************************************************************)
\* two colours whose channels pair up as 0/1, 1/255 and 254/255
Palette == {RGB(0, 1, 254), RGB(1, 255, 255)}

\* every grid of at most MaxH x MaxW pixels over Palette
Grids == UNION {[1..h -> [1..w -> Palette]] : h \in 1..MaxH, w \in 1..MaxW}

Cold == RGB(0, 0, 0)
Hot == RGB(255, 255, 255)
Warm == RGB(10, 20, 30)

\* a grid of h x w pixels cut at row r0 and column c0: `on` in two opposite
\* quarters, `off` in the other two (uniform, halved or chequered quarters)
CutGrid(h, w, r0, c0, on, off) ==
    [i \in 1..h |-> [j \in 1..w |-> IF (i <= r0) # (j <= c0) THEN on ELSE off]]

\* a grid of h x w pixels without flat areas: every channel varies with the
\* position, at a rate set by seed[1] and seed[2], and repeats every seed[3]
\* rows and columns
Texture(h, w, seed) ==
    [i \in 1..h |-> [j \in 1..w |->
        LET y == i % seed[3]
            x == j % seed[3]
        IN  RGB((seed[1] * y + seed[2] * x) % 256,
                (seed[1] * y * x + seed[2]) % 256,
                (seed[2] * y + seed[1] * x * x) % 256)]]

TextureSeeds == {<<1, 2, 16>>, <<37, 101, 16>>, <<200, 55, 16>>, <<37, 101, 3>>}

FlatDims ==
    {d \in (1..(FlatMaxSpan - 1)) \X (1..(FlatMaxSpan - 1)) : d[1] + d[2] <= FlatMaxSpan}

TreeGrids ==
    UNION {{CutGrid(d[1], d[2], r0, c0, on, Cold) :
               r0 \in 0..d[1], c0 \in 0..d[2], on \in {Hot, Warm}} : d \in FlatDims}
    \cup {Texture(h, w, seed) : h \in 1..TreeMaxH, w \in 1..TreeMaxW, seed \in TextureSeeds}

Rects(h, w) ==
    {<<tl, br>> \in ((0..(h - 1)) \X (0..(w - 1))) \X ((0..(h - 1)) \X (0..(w - 1))) :
        tl[1] <= br[1] /\ tl[2] <= br[2]}

NoQuery == [op |-> "none", top_left |-> <<0, 0>>, bottom_right |-> <<0, 0>>,
            out |-> zero, metric |-> 0, partial |-> zero, partial_sq |-> zero]

NoProbe == [node |-> Node_leaf(<<0, 0>>, <<0, 0>>), called |-> FALSE, kids |-> <<>>]

NoFrame == [rendered |-> FALSE, pixels |-> <<>>, puts |-> <<>>]

(***************************************************************************)
(* Spec: Tree::new on a decoded grid, then any sequence of Tree::refine     *)
(***************************************************************************)
InitTree(grid) ==
    LET img == ImageData_new(grid)
        t == Tree_new(img)
    IN  /\ arr = grid
        /\ image_data = t.image_data
        /\ nodes = t.nodes
        /\ pq = t.pq
        /\ dimensions = t.dimensions
        /\ result = "none"
        /\ calls = 0
        /\ n_ok = 0
        /\ last_top = 0

Init ==
    /\ \E grid \in TreeGrids : InitTree(grid)
    /\ query = NoQuery
    /\ probe = NoProbe
    /\ frame = NoFrame

Refine ==
    /\ calls < MaxCalls
    /\ \E o \in refine(nodes, pq, image_data, last_top) :
          /\ nodes' = o.nodes
          /\ pq' = o.pq
          /\ last_top' = o.top
          /\ result' = IF o.ok THEN "ok" ELSE "err"
          /\ n_ok' = IF o.ok THEN n_ok + 1 ELSE n_ok
    /\ calls' = calls + 1
    /\ frame' = NoFrame
    /\ UNCHANGED <<arr, image_data, dimensions, query, probe>>

\* Tree::render_rgb reads the tree and returns a raster; it may be called
\* before any refine call and between any two
Render ==
    /\ LET ret == render_rgb(nodes, image_data, dimensions)
       IN  frame' = [rendered |-> TRUE, pixels |-> ret.pixels, puts |-> ret.puts]
    /\ UNCHANGED <<arr, image_data, nodes, pq, dimensions, result, calls, n_ok, last_top,
                   query, probe>>

Next == Refine \/ Render

Spec == Init /\ [][Next]_vars

(***************************************************************************)
(* SpecStats: ImageData::new on a grid, then queries on any rectangle       *)
(***************************************************************************)
InitStats ==
    /\ \E grid \in Grids : InitTree(grid)
    /\ query = NoQuery
    /\ probe = NoProbe
    /\ frame = NoFrame

\* a query reads the tables and changes nothing: one query per behaviour
\* covers every query
QuerySum ==
    /\ query.op = "none"
    /\ \E rect \in Rects(image_data.height, image_data.width) :
          query' = [op |-> "query_sum", top_left |-> rect[1], bottom_right |-> rect[2],
                    out |-> query_sum(image_data.sums, rect[1], rect[2]),
                    metric |-> 0,
                    partial |-> query_sum_partial(image_data.sums, rect[1], rect[2]),
                    partial_sq |-> zero]
    /\ UNCHANGED <<arr, image_data, nodes, pq, dimensions, result, calls, n_ok, last_top, probe, frame>>

Metric ==
    /\ query.op = "none"
    /\ \E rect \in Rects(image_data.height, image_data.width) :
          query' = [op |-> "metric", top_left |-> rect[1], bottom_right |-> rect[2],
                    out |-> metric_variance(image_data, rect[1], rect[2]),
                    metric |-> metric(image_data, rect[1], rect[2]),
                    partial |-> query_sum_partial(image_data.sums, rect[1], rect[2]),
                    partial_sq |-> query_sum_partial(image_data.square_sums, rect[1], rect[2])]
    /\ UNCHANGED <<arr, image_data, nodes, pq, dimensions, result, calls, n_ok, last_top, probe, frame>>

NextStats == QuerySum \/ Metric

SpecStats == InitStats /\ [][NextStats]_vars

(***************************************************************************)
(* SpecSplit: Node::split on any node rectangle inside 0..MaxCoord          *)
(***************************************************************************)
InitSplit ==
    /\ InitTree(CutGrid(1, 1, 0, 0, Hot, Cold))
    /\ query = NoQuery
    /\ frame = NoFrame
    /\ \E tl \in (0..MaxCoord) \X (0..MaxCoord), br \in (0..MaxCoord) \X (0..MaxCoord) :
          /\ tl[1] <= br[1]
          /\ tl[2] <= br[2]
          /\ probe = [node |-> Node_leaf(tl, br), called |-> FALSE, kids |-> <<>>]

Split ==
    /\ ~probe.called
    /\ probe' = [probe EXCEPT !.called = TRUE, !.kids = split(probe.node)]
    /\ UNCHANGED <<arr, image_data, nodes, pq, dimensions, result, calls, n_ok, last_top, query, frame>>

NextSplit == Split

SpecSplit == InitSplit /\ [][NextSplit]_vars

(***************************************************************************)
(* Vocabulary of the properties                                            *)
(***************************************************************************)
\* the pixels of the inclusive rectangle top_left .. bottom_right
Cells(top_left, bottom_right) ==
    {<<r, c>> : r \in top_left[1]..bottom_right[1], c \in top_left[2]..bottom_right[2]}

NodeCells(node) == Cells(node.top_left, node.bottom_right)

Rows(node) == node.bottom_right[1] - node.top_left[1] + 1

Cols(node) == node.bottom_right[2] - node.top_left[2] + 1

\* the sum of the grid's pixels over a set of cells, one cell at a time
RECURSIVE BruteSum(_, _)
BruteSum(grid, cells) ==
    IF cells = {} THEN zero
    ELSE LET c == CHOOSE x \in cells : TRUE
         IN  rgb_add(At2(grid, c[1], c[2]), BruteSum(grid, cells \ {c}))

RECURSIVE BruteSquareSum(_, _)
BruteSquareSum(grid, cells) ==
    IF cells = {} THEN zero
    ELSE LET c == CHOOSE x \in cells : TRUE
             x == At2(grid, c[1], c[2])
         IN  rgb_add(RGB(x.r * x.r, x.g * x.g, x.b * x.b), BruteSquareSum(grid, cells \ {c}))

\* indices of the leaves of a node arena, and of those that can be split
Leaves(ns) == {i \in 0..(Len(ns) - 1) : At(ns, i).children = <<>>}

SplittableLeaves(ns) == {i \in Leaves(ns) : can_split(At(ns, i))}

\* the error metric of node i of the arena
NodeMetric(ns, i) == metric(image_data, At(ns, i).top_left, At(ns, i).bottom_right)

\* how many heap entries refer to node i
RECURSIVE Copies(_, _)
Copies(q, es) ==
    IF es = {} THEN 0
    ELSE LET e == CHOOSE x \in es : TRUE
         IN  CopiesIn(e, q) + Copies(q, es \ {e})

EntriesOf(q, i) == Copies(q, {e \in BagToSet(q) : e.node_index = i})

(***************************************************************************)
(* C1 - C10                                                                *)
(***************************************************************************)
\* C1: on the table built by PrefixSum2D::new, query_sum over any rectangle
\* inside the grid equals, per channel, the sum of the grid's cells in it.
C1_QuerySumIsBruteForce ==
    query.op = "query_sum" =>
        query.out = BruteSum(arr, Cells(query.top_left, query.bottom_right))

\* a query over a rectangle of several pixels that touches neither the top row
\* nor the left column, with a non-zero sum
C1_Witness ==
    /\ query.op = "query_sum"
    /\ query.top_left[1] > 0
    /\ query.top_left[2] > 0
    /\ query.bottom_right[1] > query.top_left[1]
    /\ query.out.g > 1

\* C2: a successful refine splits a leaf whose metric is >= the metric of every
\* leaf that could be split when the call was made.
C2_SplitsWorstLeaf ==
    [][(calls' = calls + 1 /\ result' = "ok") =>
          /\ last_top' \in SplittableLeaves(nodes)
          /\ At(nodes', last_top').children # <<>>
          /\ \A i \in SplittableLeaves(nodes) :
                NodeMetric(nodes, last_top') >= NodeMetric(nodes, i)]_vars

\* a call has just split a leaf while another leaf that could be split, with a
\* smaller metric, was left alone
C2_Witness ==
    /\ result = "ok"
    /\ \E i \in SplittableLeaves(nodes) :
          /\ ~(\E k \in 1..4 : At(nodes, last_top).children[k] = i)
          /\ NodeMetric(nodes, i) < NodeMetric(nodes, last_top)

\* C3: when Node::split returns children, the four child rectangles are
\* non-empty, pairwise disjoint, and their union is the parent rectangle.
C3_ChildrenPartitionParent ==
    (probe.called /\ probe.kids # <<>>) =>
        /\ \A k \in 1..4 : NodeCells(probe.kids[k]) # {}
        /\ UNION {NodeCells(probe.kids[k]) : k \in 1..4} = NodeCells(probe.node)
        /\ \A k, l \in 1..4 :
              k # l => NodeCells(probe.kids[k]) \cap NodeCells(probe.kids[l]) = {}

\* split has returned children for a node of 3 rows and 7 columns
C3_Witness ==
    /\ probe.called
    /\ probe.kids # <<>>
    /\ Rows(probe.node) = 3
    /\ Cols(probe.node) = 7

\* C4: after n Ok returns of refine the arena holds 1 + 4n nodes, 1 + 3n of
\* them leaves; calls that returned the error do not count.
C4_NodeAndLeafCount ==
    /\ Len(nodes) = 1 + 4 * n_ok
    /\ Cardinality(Leaves(nodes)) = 1 + 3 * n_ok

\* two calls have split and a later call has failed
C4_Witness ==
    /\ n_ok >= 2
    /\ calls > n_ok
    /\ result = "err"

\* C5: in ImageData::metric no channel of the variance is negative (the u64
\* subtraction does not wrap): it is the truncated mean of squares minus the
\* square of the truncated mean, and the metric is >= 0; nor is any channel
\* negative half-way through the two query_sum calls it makes.
C5_MetricNoUnderflow ==
    query.op = "metric" =>
        LET cells == Cells(query.top_left, query.bottom_right)
            n == Cardinality(cells)
            s == BruteSum(arr, cells)
            sq == BruteSquareSum(arr, cells)
        IN  /\ query.out.r >= 0 /\ query.out.g >= 0 /\ query.out.b >= 0
            /\ query.out.r = (sq.r \div n) - (s.r \div n) * (s.r \div n)
            /\ query.out.g = (sq.g \div n) - (s.g \div n) * (s.g \div n)
            /\ query.out.b = (sq.b \div n) - (s.b \div n) * (s.b \div n)
            /\ query.metric >= 0
            /\ query.partial.r >= 0 /\ query.partial.g >= 0 /\ query.partial.b >= 0
            /\ query.partial_sq.r >= 0 /\ query.partial_sq.g >= 0 /\ query.partial_sq.b >= 0

\* a metric over several pixels where the mean of the red channel is truncated
\* and the metric is not zero
C5_Witness ==
    /\ query.op = "metric"
    /\ query.metric > 0
    /\ LET cells == Cells(query.top_left, query.bottom_right)
           n == Cardinality(cells)
       IN  /\ n > 1
           /\ BruteSum(arr, cells).r % n # 0

\* C6: on a 2x2 grid the first refine call returns Ok and leaves four 1x1
\* leaves of metric 0 under the root; every later call returns the error.
C6_TwoByTwoSplitsOnce ==
    dimensions = <<2, 2>> =>
        /\ calls = 1 =>
              /\ result = "ok"
              /\ Len(nodes) = 5
              /\ At(nodes, 0).children # <<>>
              /\ \A i \in 1..(Len(nodes) - 1) :
                    /\ At(nodes, i).children = <<>>
                    /\ Rows(At(nodes, i)) = 1
                    /\ Cols(At(nodes, i)) = 1
                    /\ NodeMetric(nodes, i) = 0
        /\ calls > 1 => result = "err"

\* C7 as stated: on a 1x5 grid refine fails only once every leaf is 1x1.
C7_OneByFiveSplitsToPixels ==
    (dimensions = <<1, 5>> /\ result = "err") =>
        \A i \in Leaves(nodes) : Rows(At(nodes, i)) = 1 /\ Cols(At(nodes, i)) = 1

\* C7 amended: on a 1x5 grid no refine call splits anything: the arena keeps
\* its single root leaf and every call returns the error.
C7_OneByFiveNeverSplits ==
    dimensions = <<1, 5>> =>
        /\ Len(nodes) = 1
        /\ At(nodes, 0).children = <<>>
        /\ calls > 0 => result = "err"

\* refine has been called twice on a 1x5 grid
C7_Witness ==
    /\ dimensions = <<1, 5>>
    /\ calls >= 2
    /\ result = "err"

\* C8: the heap holds exactly one entry for every leaf that can still be
\* split, and no entry for a node that has children.
C8_QueueCoversSplittableLeaves ==
    /\ \A i \in SplittableLeaves(nodes) : EntriesOf(pq, i) = 1
    /\ \A e \in BagToSet(pq) : At(nodes, e.node_index).children = <<>>

\* after two splits a leaf that can be split is waiting in the heap, next to
\* leaves that cannot
C8_Witness ==
    /\ n_ok >= 2
    /\ SplittableLeaves(nodes) # {}
    /\ \E e \in BagToSet(pq) : ~can_split(At(nodes, e.node_index))

\* C9: refine returns the error exactly when no leaf can be split; an error
\* leaves the arena unchanged and is followed by errors only; the number of Ok
\* returns is bounded by the grid (1 + 3 n leaves fit in height * width pixels).
C9_ErrorIffNothingToSplit ==
    /\ [](1 + 3 * n_ok <= dimensions[1] * dimensions[2])
    /\ [][calls' = calls + 1 =>
             /\ (result' = "err") <=> (SplittableLeaves(nodes) = {})
             /\ result' = "err" => nodes' = nodes
             /\ result = "err" => result' = "err"]_vars

\* after some splits refine has failed twice in a row
C9_Witness ==
    /\ n_ok >= 1
    /\ calls >= n_ok + 2
    /\ result = "err"

\* C10 as stated: the NW/SW side gets the smaller or equal half on each axis.
C10_NorthWestSmaller ==
    (probe.called /\ probe.kids # <<>>) =>
        /\ Cols(probe.kids[1]) <= Cols(probe.kids[2])
        /\ Cols(probe.kids[3]) <= Cols(probe.kids[4])
        /\ Rows(probe.kids[1]) <= Rows(probe.kids[3])
        /\ Rows(probe.kids[2]) <= Rows(probe.kids[4])

\* C10 amended: the NW/SW side gets the larger or equal half on each axis.
C10_NorthWestLarger ==
    (probe.called /\ probe.kids # <<>>) =>
        /\ Cols(probe.kids[1]) >= Cols(probe.kids[2])
        /\ Cols(probe.kids[3]) >= Cols(probe.kids[4])
        /\ Rows(probe.kids[1]) >= Rows(probe.kids[3])
        /\ Rows(probe.kids[2]) >= Rows(probe.kids[4])

\* split has returned children with NW strictly wider than NE and strictly
\* taller than SW
C10_Witness ==
    /\ probe.called
    /\ probe.kids # <<>>
    /\ Cols(probe.kids[1]) > Cols(probe.kids[2])
    /\ Rows(probe.kids[1]) > Rows(probe.kids[3])

(***************************************************************************)
(* C11                                                                     *)
(***************************************************************************)
\* indices of the leaves reached from node i through the children fields
RECURSIVE ReachableLeaves(_, _)
ReachableLeaves(ns, i) ==
    IF At(ns, i).children = <<>> THEN {i}
    ELSE UNION {ReachableLeaves(ns, At(ns, i).children[k]) : k \in 1..4}

\* the pixels <<row, col>> of the image
ImagePixels == (0..(dimensions[1] - 1)) \X (0..(dimensions[2] - 1))

\* the truncated per-channel mean of the grid over node i's rectangle
LeafAverage(ns, i) ==
    LET cells == NodeCells(At(ns, i))
        s == BruteSum(arr, cells)
        n == Cardinality(cells)
    IN  RGB(s.r \div n, s.g \div n, s.b \div n)

\* C11: in every reachable state every pixel of the image lies in exactly one
\* rectangle of a leaf reachable from the root, and no such rectangle leaves
\* the image; a raster rendered in that state has exactly the image's pixels,
\* each painted exactly once, with the average colour of the leaf it lies in;
\* rendered before any split it is one colour throughout.
C11_LeavesPartitionAndRender ==
    LET leaves == ReachableLeaves(nodes, 0)
    IN  /\ \A i \in leaves : NodeCells(At(nodes, i)) \subseteq ImagePixels
        /\ \A p \in ImagePixels :
              Cardinality({i \in leaves : p \in NodeCells(At(nodes, i))}) = 1
        /\ frame.rendered =>
              /\ DOMAIN frame.pixels = {<<p[2], p[1]>> : p \in ImagePixels}
              /\ \A p \in ImagePixels :
                    LET i == CHOOSE l \in leaves : p \in NodeCells(At(nodes, l))
                    IN  /\ frame.puts[<<p[2], p[1]>>] = 1
                        /\ frame.pixels[<<p[2], p[1]>>] = LeafAverage(nodes, i)
        /\ (frame.rendered /\ n_ok = 0) =>
              \A p, r \in DOMAIN frame.pixels : frame.pixels[p] = frame.pixels[r]

\* a raster rendered after two splits and a failed call, with two pixels of
\* different colours
C11_Witness ==
    /\ frame.rendered
    /\ n_ok >= 2
    /\ result = "err"
    /\ \E p, r \in DOMAIN frame.pixels : frame.pixels[p] # frame.pixels[r]

====
